---- MODULE Spec2Model ----
(***************************************************************************)
(* A model of the Rubik's cube engine: piece.py (Piece), rubiks_cube.py    *)
(* (Cube) and three_by_three.py (ThreeByThree).                            *)
(*                                                                         *)
(* Python strings are modelled as sequences of one-character strings, so   *)
(* that the regular expressions of simplify_sequence, do_move and          *)
(* do_sequence are modelled by what they match, character by character.    *)
(***************************************************************************)
EXTENDS Integers, Sequences, FiniteSets, TLC

(***************************************************************************)
(* Bounds of the model.                                                    *)
(***************************************************************************)
\* tokens a host issues in a behaviour of Spec
MaxMoves == 2
\* tokens a host issues in a behaviour of AxisSpec
MaxAxisMoves == 3
\* largest explicit repeat count of an input token
MaxCount == 3
\* "Invalid move" lines printed after which the host gives no solve command
MaxReported == 3
\* depth of nested do_sequence calls at which the interpreter gives up
\* (RecursionError); Python's default is 1000
RecursionLimit == 4
\* tokens of a string of SimplifySpec
MaxTokens == 3
\* tokens of a string of RunSpec
MaxRun == 3
\* largest k of the explicit repeat counts 4 * k tried as multiples of four
MaxFours == 2
\* largest explicit repeat count with which do_move is tried on its own
MaxWide == 7
\* largest number of iterations given to scramble, in all, in a behaviour
\* of ScrambleSpec
MaxScramble == 3

(***************************************************************************)
(* Characters and strings.                                                 *)
(***************************************************************************)
Letters == {"L", "M", "R", "U", "E", "D", "F", "S", "B"}

SP == " "
AP == "'"

\* the three character classes [LRM], [UED], [FSB] of simplify_sequence
AxisGroups == {{"L", "R", "M"}, {"U", "E", "D"}, {"F", "S", "B"}}

Digits == <<"0", "1", "2", "3", "4", "5", "6", "7", "8", "9">>

IsDigit(c) == \E d \in 1..10 : Digits[d] = c

DigitValue(c) == (CHOOSE d \in 1..10 : Digits[d] = c) - 1

\* str(n) for n >= 0
RECURSIVE Decimal(_)
Decimal(n) == IF n < 10 THEN <<Digits[n + 1]>>
              ELSE Decimal(n \div 10) \o <<Digits[(n % 10) + 1]>>

\* s[a:b] of Python, 0-based, for 0 <= a <= b <= len(s)
Slice(s, a, b) == [i \in 1..(b - a) |-> s[a + i]]

\* s.endswith("'")
EndsWithPrime(s) == Len(s) > 0 /\ s[Len(s)] = AP

\* s.split(): the maximal runs of non-space characters
RECURSIVE Split(_)
Split(s) ==
    IF Len(s) = 0 THEN <<>>
    ELSE IF s[1] = SP THEN Split(Tail(s))
    ELSE LET n == IF \E i \in 1..Len(s) : s[i] = SP
                  THEN (CHOOSE i \in 1..Len(s) :
                            s[i] = SP /\ \A j \in 1..(i - 1) : s[j] # SP) - 1
                  ELSE Len(s)
         IN  <<Slice(s, 0, n)>> \o Split(Slice(s, n, Len(s)))

\* " ".join(toks)
RECURSIVE Join(_)
Join(toks) ==
    IF Len(toks) = 0 THEN <<>>
    ELSE IF Len(toks) = 1 THEN toks[1]
    ELSE toks[1] \o <<SP>> \o Join(Tail(toks))

(***************************************************************************)
(* Piece (piece.py).                                                       *)
(***************************************************************************)
Labels == {"U", "L", "F", "R", "B", "D"}

Colors == {"white", "orange", "green", "red", "blue", "yellow"}

\* Piece.__init__: self.faces
InitFaces == [l \in Labels |->
                CASE l = "U" -> "white"
                  [] l = "L" -> "orange"
                  [] l = "F" -> "green"
                  [] l = "R" -> "red"
                  [] l = "B" -> "blue"
                  [] l = "D" -> "yellow"]

\* Piece.__init__: self.rotation_map, as <<axis, negative>>
rotation_map(m) ==
    CASE m = "U" -> <<"Y", FALSE>>
      [] m = "F" -> <<"Z", FALSE>>
      [] m = "L" -> <<"X", TRUE>>
      [] m = "D" -> <<"Y", TRUE>>
      [] m = "B" -> <<"Z", TRUE>>
      [] m = "R" -> <<"X", FALSE>>
      [] m = "E" -> <<"Y", TRUE>>
      [] m = "S" -> <<"Z", FALSE>>
      [] m = "M" -> <<"X", TRUE>>

\* a tuple assignment whose X line reads the U colour twice
AxisCycleDup(f, axis) ==
    CASE axis = "X" ->
           [f EXCEPT !["F"] = f["D"], !["U"] = f["F"],
                     !["B"] = f["U"], !["D"] = f["U"]]
      [] axis = "Y" ->
           [f EXCEPT !["L"] = f["F"], !["F"] = f["R"],
                     !["R"] = f["B"], !["B"] = f["L"]]
      [] axis = "Z" ->
           [f EXCEPT !["L"] = f["D"], !["U"] = f["L"],
                     !["R"] = f["U"], !["D"] = f["R"]]

\* a tuple assignment whose Y line runs the other way round
AxisCycleReversed(f, axis) ==
    CASE axis = "X" ->
           [f EXCEPT !["F"] = f["D"], !["U"] = f["F"],
                     !["B"] = f["U"], !["D"] = f["B"]]
      [] axis = "Y" ->
           [f EXCEPT !["F"] = f["L"], !["R"] = f["F"],
                     !["B"] = f["R"], !["L"] = f["B"]]
      [] axis = "Z" ->
           [f EXCEPT !["L"] = f["D"], !["U"] = f["L"],
                     !["R"] = f["U"], !["D"] = f["R"]]

\* the tuple assignment of do_rotation for one axis
AxisCycle(f, axis) ==
    CASE axis = "X" ->
           [f EXCEPT !["F"] = f["D"], !["U"] = f["F"],
                     !["B"] = f["U"], !["D"] = f["B"]]
      [] axis = "Y" ->
           [f EXCEPT !["L"] = f["F"], !["F"] = f["R"],
                     !["R"] = f["B"], !["B"] = f["L"]]
      [] axis = "Z" ->
           [f EXCEPT !["L"] = f["D"], !["U"] = f["L"],
                     !["R"] = f["U"], !["D"] = f["R"]]

\* a do_rotation that runs the cycle once more when prime, twice in all
do_rotationTwice(f, axis, prime) ==
    IF prime THEN AxisCycle(AxisCycle(f, axis), axis)
    ELSE AxisCycle(f, axis)

\* Piece.do_rotation: the cycle once, and twice more when prime
do_rotation(f, axis, prime) ==
    IF prime THEN AxisCycle(AxisCycle(AxisCycle(f, axis), axis), axis)
    ELSE AxisCycle(f, axis)

\* a rotate that strips the sign of a negative axis and keeps prime
rotateKeepsPrime(f, rotation, prime) ==
    do_rotation(f, rotation_map(rotation)[1], prime)

\* Piece.rotate: a negative axis flips prime
rotate(f, rotation, prime) ==
    LET r == rotation_map(rotation)
    IN  do_rotation(f, r[1], IF r[2] THEN ~prime ELSE prime)

(***************************************************************************)
(* Cube grid and layer table (rubiks_cube.py, three_by_three.py).          *)
(***************************************************************************)
Slots == (0..2) \X (0..2) \X (0..2)

PieceIds == 0..26

\* Cube.__init__: piece_list[i][j][k] holds the piece created (9i+3j+k)-th
InitPieceList == [s \in Slots |-> 9 * s[1] + 3 * s[2] + s[3]]

\* ThreeByThree.__init__: self.layers, each a centre ring and a boundary ring
layers(m) ==
    CASE m = "U" -> << <<(<<0, 1, 1>>)>>,
                       << <<0, 0, 0>>, <<0, 1, 0>>, <<0, 2, 0>>, <<0, 2, 1>>,
                          <<0, 2, 2>>, <<0, 1, 2>>, <<0, 0, 2>>, <<0, 0, 1>> >> >>
      [] m = "F" -> << <<(<<1, 0, 1>>)>>,
                       << <<0, 0, 0>>, <<0, 0, 1>>, <<0, 0, 2>>, <<1, 0, 2>>,
                          <<2, 0, 2>>, <<2, 0, 1>>, <<2, 0, 0>>, <<1, 0, 0>> >> >>
      [] m = "L" -> << <<(<<1, 1, 0>>)>>,
                       << <<0, 0, 0>>, <<1, 0, 0>>, <<2, 0, 0>>, <<2, 1, 0>>,
                          <<2, 2, 0>>, <<1, 2, 0>>, <<0, 2, 0>>, <<0, 1, 0>> >> >>
      [] m = "D" -> << <<(<<2, 1, 1>>)>>,
                       << <<2, 0, 0>>, <<2, 0, 1>>, <<2, 0, 2>>, <<2, 1, 2>>,
                          <<2, 2, 2>>, <<2, 2, 1>>, <<2, 2, 0>>, <<2, 1, 0>> >> >>
      [] m = "B" -> << <<(<<1, 2, 1>>)>>,
                       << <<0, 2, 0>>, <<1, 2, 0>>, <<2, 2, 0>>, <<2, 2, 1>>,
                          <<2, 2, 2>>, <<1, 2, 2>>, <<0, 2, 2>>, <<0, 2, 1>> >> >>
      [] m = "R" -> << <<(<<1, 1, 2>>)>>,
                       << <<0, 0, 2>>, <<0, 1, 2>>, <<0, 2, 2>>, <<1, 2, 2>>,
                          <<2, 2, 2>>, <<2, 1, 2>>, <<2, 0, 2>>, <<1, 0, 2>> >> >>
      [] m = "E" -> << <<(<<1, 1, 1>>)>>,
                       << <<1, 0, 0>>, <<1, 0, 1>>, <<1, 0, 2>>, <<1, 1, 2>>,
                          <<1, 2, 2>>, <<1, 2, 1>>, <<1, 2, 0>>, <<1, 1, 0>> >> >>
      [] m = "S" -> << <<(<<1, 1, 1>>)>>,
                       << <<0, 1, 0>>, <<0, 1, 1>>, <<0, 1, 2>>, <<1, 1, 2>>,
                          <<2, 1, 2>>, <<2, 1, 1>>, <<2, 1, 0>>, <<1, 1, 0>> >> >>
      [] m = "M" -> << <<(<<1, 1, 1>>)>>,
                       << <<0, 0, 1>>, <<1, 0, 1>>, <<2, 0, 1>>, <<2, 1, 1>>,
                          <<2, 2, 1>>, <<1, 2, 1>>, <<0, 2, 1>>, <<0, 1, 1>> >> >>

\* Utilities.shiftList(lst, n): the elements moved n places forward, cyclically
shiftList(lst, n) ==
    [i \in 1..Len(lst) |-> lst[((i - 1 - n) % Len(lst)) + 1]]

\* a shift by an eighth of the ring
ShiftAmountEighth(ring, prime) ==
    IF prime THEN -((Len(ring) + 7) \div 8) ELSE Len(ring) \div 8

\* a shift that goes forward whether the turn is inverted or not
ShiftAmountForward(ring, prime) == Len(ring) \div 4

\* -len(ring) // 4 and len(ring) // 4 (Python's floor division)
ShiftAmount(ring, prime) ==
    IF prime THEN -((Len(ring) + 3) \div 4) ELSE Len(ring) \div 4

\* a shift that writes the first shifted piece back into every slot of the ring
ShiftRingDup(pl, ring, prime) ==
    IF Len(ring) > 1
    THEN LET shifted_list ==
                 shiftList([i \in 1..Len(ring) |-> pl[ring[i]]],
                           ShiftAmount(ring, prime))
         IN  [s \in Slots |->
                 IF \E i \in 1..Len(ring) : ring[i] = s
                 THEN shifted_list[1]
                 ELSE pl[s]]
    ELSE pl

\* rotate_layer, lines 150-159: the slot contents of one ring after the shift
ShiftRing(pl, ring, prime) ==
    IF Len(ring) > 1
    THEN LET shifted_list ==
                 shiftList([i \in 1..Len(ring) |-> pl[ring[i]]],
                           ShiftAmount(ring, prime))
         IN  [s \in Slots |->
                 IF \E i \in 1..Len(ring) : ring[i] = s
                 THEN shifted_list[CHOOSE i \in 1..Len(ring) : ring[i] = s]
                 ELSE pl[s]]
    ELSE pl

\* a rotation loop that runs for the rings that were shifted only
RotateRingSkipsCentre(pl, fc, ring, move, prime) ==
    [p \in PieceIds |->
        IF Len(ring) > 1 /\ \E i \in 1..Len(ring) : pl[ring[i]] = p
        THEN rotate(fc[p], move, prime)
        ELSE fc[p]]

\* rotate_layer, lines 161-162: every piece now in the ring is rotated
RotateRing(pl, fc, ring, move, prime) ==
    [p \in PieceIds |->
        IF \E i \in 1..Len(ring) : pl[ring[i]] = p
        THEN rotate(fc[p], move, prime)
        ELSE fc[p]]

\* the function f as a table of its values: what rotate_layer leaves in
\* the slots and in the pieces is data, not an expression still to evaluate
Stored(f) == f @@ f

\* Cube.rotate_layer: ring by ring, shift then rotate; the grid is the record
\* [pl |-> slot contents, fc |-> faces of every piece]
RECURSIVE RotateRings(_, _, _, _)
RotateRings(g, side, move, prime) ==
    IF Len(side) = 0 THEN g
    ELSE LET pl2 == Stored(ShiftRing(g.pl, side[1], prime))
             fc2 == Stored(RotateRing(pl2, g.fc, side[1], move, prime))
         IN  RotateRings([pl |-> pl2, fc |-> fc2], Tail(side), move, prime)

\* a rotate_layer that is handed the rings of S for the letter E
rotate_layerOfS(g, move, prime) ==
    RotateRings(g, layers(IF move = "E" THEN "S" ELSE move), move, prime)

\* a rotate_layer whose rings of U refer to the slots of D once the cube
\* has been turned
rotate_layerDrifts(g, move, prime) ==
    RotateRings(g,
                layers(IF move = "U" /\ g.pl # InitPieceList THEN "D" ELSE move),
                move, prime)

rotate_layer(g, move, prime) == RotateRings(g, layers(move), move, prime)

FreshGrid == [pl |-> InitPieceList, fc |-> [p \in PieceIds |-> InitFaces]]

\* Cube.get_color
get_color(g, i, j, k, face) == g.fc[g.pl[<<i, j, k>>]][face]

\* the (a, b) of the n-th step of a walk "for a in ra: for b in rb" over a side
WalkOuter(n) == (n - 1) \div 3
WalkInner(n) == (n - 1) % 3

\* up_layer .. down_layer: the colours of each side in the order of its walk
up_layer(g) ==
    [n \in 1..9 |-> get_color(g, 0, 2 - WalkOuter(n), WalkInner(n), "U")]
left_layer(g) ==
    [n \in 1..9 |-> get_color(g, WalkOuter(n), 2 - WalkInner(n), 0, "L")]
front_layer(g) ==
    [n \in 1..9 |-> get_color(g, WalkOuter(n), 0, WalkInner(n), "F")]
right_layer(g) ==
    [n \in 1..9 |-> get_color(g, WalkOuter(n), WalkInner(n), 2, "R")]
back_layer(g) ==
    [n \in 1..9 |-> get_color(g, WalkOuter(n), 2, 2 - WalkInner(n), "B")]
down_layer(g) ==
    [n \in 1..9 |-> get_color(g, 2, WalkOuter(n), WalkInner(n), "D")]

\* Cube.is_side_solved: every colour equals the first
is_side_solved(colors) == \A n \in 1..Len(colors) : colors[n] = colors[1]

\* an is_solved that looks at the up and down sides only
is_solved_up_down(g) ==
    /\ is_side_solved(up_layer(g))
    /\ is_side_solved(down_layer(g))

\* Cube.is_solved
is_solved(g) ==
    /\ is_side_solved(up_layer(g))
    /\ is_side_solved(left_layer(g))
    /\ is_side_solved(front_layer(g))
    /\ is_side_solved(right_layer(g))
    /\ is_side_solved(back_layer(g))
    /\ is_side_solved(down_layer(g))

(***************************************************************************)
(* Sequence simplifier (Cube.simplify_sequence).  Each of the nine         *)
(* substitutions has the shape                                             *)
(*   (?:^| ) (.) HEAD (?<=[G]h) [G '2]*? \1 TAIL (?= |$)                   *)
(* with G one of the three axis classes.  A pattern element is a record    *)
(* [lit |-> the characters it consumes, atEnd |-> whether it is "$"].      *)
(***************************************************************************)
Lit(str) == [lit |-> str, atEnd |-> FALSE]
AtEnd == [lit |-> <<>>, atEnd |-> TRUE]

\* the nine re.sub calls of lines 208-224, in order: the alternatives of HEAD
\* and TAIL in the order the pattern lists them, the second character h of the
\* look-behind, the replacement, and which of HEAD or TAIL is the group "suffix"
Rules == <<
    [head |-> <<Lit(<<AP>>)>>, lb |-> AP, tail |-> <<Lit(<<>>)>>,
     repl |-> "separation", suffix |-> "none"],
    [head |-> <<Lit(<<SP>>)>>, lb |-> SP, tail |-> <<Lit(<<AP>>)>>,
     repl |-> "separation", suffix |-> "none"],
    [head |-> <<Lit(<<"2">>)>>, lb |-> "2", tail |-> <<Lit(<<"2">>)>>,
     repl |-> "separation", suffix |-> "none"],
    [head |-> <<Lit(<<SP>>)>>, lb |-> SP, tail |-> <<Lit(<<>>)>>,
     repl |-> "char2", suffix |-> "none"],
    [head |-> <<Lit(<<AP>>)>>, lb |-> AP, tail |-> <<Lit(<<AP>>)>>,
     repl |-> "char2", suffix |-> "none"],
    [head |-> <<Lit(<<SP>>), AtEnd>>, lb |-> SP, tail |-> <<Lit(<<"2">>)>>,
     repl |-> "triple_turn", suffix |-> "head"],
    [head |-> <<Lit(<<AP>>)>>, lb |-> AP, tail |-> <<Lit(<<"2">>)>>,
     repl |-> "triple_turn", suffix |-> "head"],
    [head |-> <<Lit(<<"2">>)>>, lb |-> "2", tail |-> <<Lit(<<SP>>), AtEnd>>,
     repl |-> "triple_turn", suffix |-> "tail"],
    [head |-> <<Lit(<<"2">>)>>, lb |-> "2", tail |-> <<Lit(<<AP>>)>>,
     repl |-> "triple_turn", suffix |-> "tail"] >>

\* pattern element e matches s at offset pos (pos characters already consumed)
ElemMatches(e, s, pos) ==
    /\ e.atEnd => pos = Len(s)
    /\ pos + Len(e.lit) <= Len(s)
    /\ \A i \in 1..Len(e.lit) : s[pos + i] = e.lit[i]

\* (?<=[G]h) at offset pos
LookBehind(G, h, s, pos) == pos >= 2 /\ s[pos - 1] \in G /\ s[pos] = h

\* (?= |$) at offset pos
LookAhead(s, pos) == pos = Len(s) \/ s[pos + 1] = SP

\* the alternatives of (?:^| ) that can be taken at offset p: 1 for "^", 2 for " "
PrefixAlts(s, p) ==
    {pa \in 1..2 : IF pa = 1 THEN p = 0 ELSE (p < Len(s) /\ s[p + 1] = SP)}

\* a look-behind whose class is every letter, whatever its axis
LookBehindAnyLetter(h, s, pos) == {G \in {Letters} : LookBehind(G, h, s, pos)}

\* the class G of the look-behind (?<=[G]h) that holds at offset pos, if any
LookBehindGroups(h, s, pos) == {G \in AxisGroups : LookBehind(G, h, s, pos)}

\* a separation whose class is every letter, whatever its axis
SeparationAnyLetter(G, s, sepA, k, c) ==
    /\ sepA + k < Len(s)
    /\ s[sepA + k + 1] = c
    /\ \A i \in (sepA + 1)..(sepA + k) : s[i] \in Letters \cup {SP, AP, "2"}

\* [G '2]*? of length k from offset sepA, followed by \1 = c
SeparationOK(G, s, sepA, k, c) ==
    /\ sepA + k < Len(s)
    /\ s[sepA + k + 1] = c
    /\ \A i \in (sepA + 1)..(sepA + k) : s[i] \in G \cup {SP, AP, "2"}

\* The ways rule r matches s with (.) at offset q, having taken alternative pa
\* of the prefix and ha of HEAD: k is the length of separation, ta the
\* alternative of TAIL.
MatchesWith(r, s, q, pa, ha) ==
    LET h    == r.head[ha]
        sepA == q + 1 + Len(h.lit)
        Gs   == LookBehindGroups(r.lb, s, sepA)
    IN  IF q < Len(s) /\ ElemMatches(h, s, q + 1) /\ Gs # {}
        THEN LET G == CHOOSE x \in Gs : TRUE
             IN  {[pa |-> pa, ha |-> ha, k |-> k, ta |-> ta] :
                     k \in {x \in 0..(Len(s) - sepA) :
                               SeparationOK(G, s, sepA, x, s[q + 1])},
                     ta \in 1..Len(r.tail)}
        ELSE {}

\* The ways rule r matches s starting at offset p.
Matches(r, s, p) ==
    {m \in UNION {MatchesWith(r, s, IF pa = 1 THEN p ELSE p + 1, pa, ha) :
                     pa \in PrefixAlts(s, p), ha \in 1..Len(r.head)} :
        LET q    == IF m.pa = 1 THEN p ELSE p + 1
            sepB == q + 1 + Len(r.head[m.ha].lit) + m.k
            t    == r.tail[m.ta]
        IN  /\ ElemMatches(t, s, sepB + 1)
            /\ LookAhead(s, sepB + 1 + Len(t.lit))}

\* the order in which the backtracking matcher tries them
MatchKey(m) == ((m.pa * 10 + m.ha) * 1000 + m.k) * 10 + m.ta

\* the match the regex engine reports at offset p, with its groups
FirstMatch(r, s, p) ==
    LET ms   == Matches(r, s, p)
        m    == CHOOSE x \in ms : \A y \in ms : MatchKey(x) <= MatchKey(y)
        q    == IF m.pa = 1 THEN p ELSE p + 1
        sepA == q + 1 + Len(r.head[m.ha].lit)
        sepB == sepA + m.k
    IN  [char       |-> s[q + 1],
         separation |-> Slice(s, sepA, sepB),
         suffix     |-> IF r.suffix = "head" THEN r.head[m.ha].lit
                        ELSE IF r.suffix = "tail" THEN r.tail[m.ta].lit
                        ELSE <<>>,
         end        |-> sepB + 1 + Len(r.tail[m.ta].lit)]

\* triple_turn, lines 197-202
triple_turn(match) ==
    IF match.suffix = <<AP>>
    THEN <<SP, match.char, SP>> \o match.separation
    ELSE <<SP, match.char, AP>> \o match.separation

\* replacements that write N where N2 is due
ReplacementNoHalf(r, match) ==
    CASE r.repl = "separation" -> <<SP>> \o match.separation
      [] r.repl = "char2"      -> <<SP, match.char, SP>> \o match.separation
      [] r.repl = "triple_turn" -> triple_turn(match)

\* replacements that leave out the group "separation"
ReplacementDropsRun(r, match) ==
    CASE r.repl = "separation" -> <<SP>>
      [] r.repl = "char2"      -> <<SP, match.char, "2", SP>>
      [] r.repl = "triple_turn" -> triple_turn(match)

\* replacements that write N' N' where N2 is due
ReplacementPrimes(r, match) ==
    CASE r.repl = "separation" -> <<SP>> \o match.separation
      [] r.repl = "char2"      ->
           <<SP, match.char, AP, SP, match.char, AP, SP>> \o match.separation
      [] r.repl = "triple_turn" -> triple_turn(match)

\* replacements that drop a pair N N where N2 is due
ReplacementCancelsTwice(r, match) ==
    CASE r.repl = "separation" -> <<SP>> \o match.separation
      [] r.repl = "char2"      -> <<SP>> \o match.separation
      [] r.repl = "triple_turn" -> triple_turn(match)

\* the replacement text of rule r for a match
Replacement(r, match) ==
    CASE r.repl = "separation" -> <<SP>> \o match.separation
      [] r.repl = "char2"      -> <<SP, match.char, "2", SP>> \o match.separation
      [] r.repl = "triple_turn" -> triple_turn(match)

\* re.sub(rule, replacement, s) from offset pos on: leftmost matches, left to
\* right, not overlapping
RECURSIVE SubFrom(_, _, _)
SubFrom(r, s, pos) ==
    LET starts == {p \in pos..Len(s) : PrefixAlts(s, p) # {} /\ Matches(r, s, p) # {}}
    IN  IF starts = {} THEN Slice(s, pos, Len(s))
        ELSE LET p == CHOOSE x \in starts : \A y \in starts : x <= y
                 m == FirstMatch(r, s, p)
             IN  Slice(s, pos, p) \o Replacement(r, m) \o SubFrom(r, s, m.end)

Sub(r, s) == SubFrom(r, s, 0)

\* re.sub(r"\s+", " ", seq)
RECURSIVE CollapseSpaces(_)
CollapseSpaces(s) ==
    IF Len(s) = 0 THEN s
    ELSE IF s[1] = SP /\ Len(s) > 1 /\ s[2] = SP THEN CollapseSpaces(Tail(s))
    ELSE <<s[1]>> \o CollapseSpaces(Tail(s))

\* seq.strip()
RECURSIVE Strip(_)
Strip(s) ==
    IF Len(s) = 0 THEN s
    ELSE IF s[1] = SP THEN Strip(Tail(s))
    ELSE IF s[Len(s)] = SP THEN Strip(Slice(s, 0, Len(s) - 1))
    ELSE s

\* rules i..9 applied in turn
RECURSIVE ApplyRules(_, _)
ApplyRules(i, s) ==
    IF i > Len(Rules) THEN s ELSE ApplyRules(i + 1, Sub(Rules[i], s))

\* one pass of the while loop's body, lines 207-226
Pass(s) == CollapseSpaces(ApplyRules(1, s))

\* a loop that stops after its first pass
SimplifyOnce(previous_sequence, seq) == Pass(seq)

\* while previous_sequence != (previous_sequence := seq): seq = Pass(seq)
RECURSIVE SimplifyLoop(_, _)
SimplifyLoop(previous_sequence, seq) ==
    IF previous_sequence = seq THEN seq ELSE SimplifyLoop(seq, Pass(seq))

\* Cube.simplify_sequence
simplify_sequence(seq) == Strip(SimplifyLoop(<<>>, seq))

\* Cube.reverse_sequence
RECURSIVE ReverseTokens(_)
ReverseTokens(toks) ==
    IF Len(toks) = 0 THEN <<>>
    ELSE ReverseTokens(Tail(toks)) \o
         <<IF EndsWithPrime(toks[1]) THEN Slice(toks[1], 0, Len(toks[1]) - 1)
           ELSE toks[1] \o <<AP>> >>

\* a reverse_sequence that flips the mark of every token and keeps their order
reverse_sequenceInOrder(moves) ==
    LET toks == Split(moves)
    IN  Join([i \in 1..Len(toks) |->
                 IF EndsWithPrime(toks[i]) THEN Slice(toks[i], 0, Len(toks[i]) - 1)
                 ELSE toks[i] \o <<AP>>])

reverse_sequence(moves) == Join(ReverseTokens(Split(moves)))

(***************************************************************************)
(* Notation engine: the grammars of do_sequence, do_move and get_sequence. *)
(***************************************************************************)
\* int() of a run of digits
RECURSIVE ParseInt(_)
ParseInt(ds) ==
    IF Len(ds) = 0 THEN 0
    ELSE 10 * ParseInt(Slice(ds, 0, Len(ds) - 1)) + DigitValue(ds[Len(ds)])

\* re.search(r"\d+", s): the first maximal run of digits of s, <<>> if none
FirstDigits(s) ==
    IF \E i \in 1..Len(s) : IsDigit(s[i])
    THEN LET a == CHOOSE i \in 1..Len(s) :
                      IsDigit(s[i]) /\ \A j \in 1..(i - 1) : ~IsDigit(s[j])
             b == CHOOSE i \in a..Len(s) :
                      /\ \A j \in a..i : IsDigit(s[j])
                      /\ (i = Len(s) \/ ~IsDigit(s[i + 1]))
         IN  Slice(s, a - 1, b)
    ELSE <<>>

\* s matches \d*[']?$ from offset pos on
DigitsPrimeEnd(s, pos) ==
    \E n \in pos..Len(s) :
        /\ \A i \in (pos + 1)..n : IsDigit(s[i])
        /\ (n = Len(s) \/ (n + 1 = Len(s) /\ s[n + 1] = AP))

\* do_sequence, line 529: re.match(r"^[LMRUEDFSB]\d*[']?$", move)
IsBasicMove(move) ==
    Len(move) >= 1 /\ move[1] \in Letters /\ DigitsPrimeEnd(move, 1)

\* key is a prefix of s
StartsWith(s, key) ==
    Len(key) <= Len(s) /\ \A i \in 1..Len(key) : s[i] = key[i]

\* do_sequence, lines 534-536: re.match("|".join("^" + key + "\d*[']?$")).
\* The join over an empty table is the empty pattern, which matches any move.
IsNamedSequence(map, move) ==
    \/ DOMAIN map = {}
    \/ \E key \in DOMAIN map : StartsWith(move, key) /\ DigitsPrimeEnd(move, Len(key))

\* get_sequence, lines 505-510: the text matched by
\* re.match("|".join("^" + key + "(?=[\d']|$)")), the empty text for an empty
\* table (macro names are taken not to be prefixes of one another)
MatchedKey(map, sequence_name) ==
    IF DOMAIN map = {} THEN <<>>
    ELSE CHOOSE key \in DOMAIN map :
            /\ StartsWith(sequence_name, key)
            /\ \/ Len(key) = Len(sequence_name)
               \/ IsDigit(sequence_name[Len(key) + 1])
               \/ sequence_name[Len(key) + 1] = AP

\* get_sequence raises KeyError: the matched text is no key of the table
GetSequenceRaises(map, sequence_name) == MatchedKey(map, sequence_name) \notin DOMAIN map

\* Cube.get_sequence: <<sequence, repeat>>
get_sequence(map, sequence_name) ==
    LET ds       == FirstDigits(sequence_name)
        repeat   == IF Len(ds) > 0 THEN ParseInt(ds) ELSE 1
        sequence == map[MatchedKey(map, sequence_name)]
    IN  <<IF EndsWithPrime(sequence_name) THEN reverse_sequence(sequence)
          ELSE sequence,
          repeat>>

\* a half turn that turns the layer once
CanonicalHalfOnce(move) ==
    LET ds     == FirstDigits(move)
        repeat == IF Len(ds) > 0 THEN ParseInt(ds) % 4 ELSE 1
        letter == <<move[1]>>
    IN  CASE repeat = 0 -> <<move, 0>>
          [] repeat = 1 -> <<IF EndsWithPrime(move) THEN letter \o <<AP>>
                             ELSE letter, 1>>
          [] repeat = 2 -> <<letter \o <<"2">>, 1>>
          [] repeat = 3 -> <<IF EndsWithPrime(move) THEN letter
                             ELSE letter \o <<AP>>, 1>>

\* a count of 3 that keeps the token's own mark
CanonicalKeepsMark(move) ==
    LET ds     == FirstDigits(move)
        repeat == IF Len(ds) > 0 THEN ParseInt(ds) % 4 ELSE 1
        letter == <<move[1]>>
    IN  CASE repeat = 0 -> <<move, 0>>
          [] repeat = 1 -> <<IF EndsWithPrime(move) THEN letter \o <<AP>>
                             ELSE letter, 1>>
          [] repeat = 2 -> <<letter \o <<"2">>, 2>>
          [] repeat = 3 -> <<IF EndsWithPrime(move) THEN letter \o <<AP>>
                             ELSE letter, 1>>

\* do_move, lines 147-159: <<canonical token, quarter turns>>; repeat 0 returns
\* before anything is recorded
Canonical(move) ==
    LET ds     == FirstDigits(move)
        repeat == IF Len(ds) > 0 THEN ParseInt(ds) % 4 ELSE 1
        letter == <<move[1]>>
    IN  CASE repeat = 0 -> <<move, 0>>
          [] repeat = 1 -> <<IF EndsWithPrime(move) THEN letter \o <<AP>>
                             ELSE letter, 1>>
          [] repeat = 2 -> <<letter \o <<"2">>, 2>>
          [] repeat = 3 -> <<IF EndsWithPrime(move) THEN letter
                             ELSE letter \o <<AP>>, 1>>

\* do_move, lines 169-172: one quarter turn of the canonical token
QuarterTurn(g, move) == rotate_layer(g, move[1], EndsWithPrime(move))

(***************************************************************************)
(* Inputs of the model.                                                    *)
(***************************************************************************)
Str1(a) == <<a>>

\* the repeat counts an input token may carry: none, or 0..MaxCount
CountStrings == {<<>>} \cup {Decimal(n) : n \in 0..MaxCount}

\* tokens of the atomic-move grammar over the letters ls
BasicTokens(ls) ==
    {Str1(l) \o c \o m : l \in ls, c \in CountStrings, m \in {<<>>, Str1(AP)}}

\* the canonical tokens N, N', N2 over the letters ls
CanonicalTokens(ls) ==
    {Str1(l) \o m : l \in ls, m \in {<<>>, Str1(AP), Str1("2")}}

\* invocations of a macro named T
MacroTokens == {<<"T">>, <<"T", "'">>, <<"T", "2">>, <<"T", "0">>}

\* tokens of neither grammar
InvalidTokens == {<<"X">>, <<"U", "'", "D">>, <<"R", "'", "2">>}

\* the macro tables a cube may be constructed with (Sequences.json)
NoMacros == [key \in {} |-> <<>>]
OneMacro == [key \in {<<"T">>} |-> <<"R", " ", "U">>]
MacroTables == {NoMacros, OneMacro}

\* a macro table with a macro named as the move letter U
ShadowMacro == [key \in {<<"U">>} |-> <<"R", " ", "F">>]

\* the tokens a host issues one to a line
Tokens == BasicTokens(Letters) \cup MacroTokens \cup InvalidTokens

\* the tokens a host issues two to a line
PairTokens == CanonicalTokens(Letters) \cup MacroTokens \cup InvalidTokens

\* two letters of one axis group and one of another: the tokens of the longer runs
AxisLetters == {"U", "D", "R"}
AxisTokens == CanonicalTokens(AxisLetters) \cup MacroTokens \cup InvalidTokens

\* the lines a host passes to do_sequence when n more tokens may be issued:
\* one token of single, or two of pair
InputStrings(single, pair, n) ==
    {t \in single : n >= 1} \cup
    {a \o <<SP>> \o b : a \in {t \in pair : n >= 2}, b \in pair}

(***************************************************************************)
(* The executor (Cube.do_sequence, ThreeByThree.do_move, Cube.solve).      *)
(* The coroutines run without interruption from one asyncio.sleep to the   *)
(* next, so an action is the code run between two suspensions.  The state  *)
(* of the executor is a record:                                            *)
(*   pl, fc     the grid: slot contents and the faces of every piece       *)
(*   hist       previous_moves                                             *)
(*   stack      one frame per active do_sequence call:                     *)
(*                rest   the tokens of moves.split() not yet iterated over *)
(*                move   the loop variable, while a macro is repeated      *)
(*                moves  the local variable moves, likewise                *)
(*                reps   the iterations left of "for _ in range(repeat)"   *)
(*   pc         "idle" (no call is active), "loop" (the innermost call is  *)
(*              at the head of a for loop), "sleep" (do_move is suspended  *)
(*              in asyncio.sleep) or "raised" (an exception left the       *)
(*              outermost call)                                            *)
(*   turn       the canonical token of the suspended do_move and the       *)
(*              iterations left of its for loop                            *)
(*   err        the exception raised                                       *)
(*   reported   the number of "Invalid move" lines printed                 *)
(***************************************************************************)
NoTurn == [move |-> <<>>, left |-> 0]

Frame(moves) == [rest |-> Split(moves), move |-> <<>>, moves |-> <<>>, reps |-> 0]

TopOf(st) == st.stack[Len(st.stack)]

WithTop(st, f) == [st.stack EXCEPT ![Len(st.stack)] = f]

\* the frame after its for loop has taken the next token
NextToken(f) == [f EXCEPT !.rest = Tail(@), !.move = <<>>, !.moves = <<>>]

\* an exception leaves every active call; nothing catches it
Raise(st, name) == [st EXCEPT !.stack = <<>>, !.pc = "raised", !.err = name]

\* a do_move without the return of line 152
do_moveNoReturn(st, move) ==
    LET c == Canonical(move)
    IN  IF c[2] = 0
        THEN [st EXCEPT !.hist = simplify_sequence(st.hist \o <<SP>> \o move)]
        ELSE LET g == QuarterTurn([pl |-> st.pl, fc |-> st.fc], c[1])
             IN  [st EXCEPT !.hist = simplify_sequence(st.hist \o <<SP>> \o c[1]),
                            !.pl = g.pl,
                            !.fc = g.fc,
                            !.turn = [move |-> c[1], left |-> c[2] - 1],
                            !.pc = "sleep"]

\* ThreeByThree.do_move up to its first asyncio.sleep, or to its return when
\* the repeat count is 0 mod 4
do_move(st, move) ==
    LET c == Canonical(move)
    IN  IF c[2] = 0 THEN st
        ELSE LET g == QuarterTurn([pl |-> st.pl, fc |-> st.fc], c[1])
             IN  [st EXCEPT !.hist = simplify_sequence(st.hist \o <<SP>> \o c[1]),
                            !.pl = g.pl,
                            !.fc = g.fc,
                            !.turn = [move |-> c[1], left |-> c[2] - 1],
                            !.pc = "sleep"]

\* the argument of the recursive call of line 541
RecursiveArgument(f) == f.move

\* do_sequence, lines 540-541: one iteration of "for _ in range(repeat)", a
\* recursive call; the interpreter raises RecursionError at its limit
RepeatSequence(st) ==
    LET f == TopOf(st)
    IN  IF Len(st.stack) >= RecursionLimit THEN Raise(st, "RecursionError")
        ELSE [st EXCEPT !.stack = Append(WithTop(st, [f EXCEPT !.reps = @ - 1]),
                                         Frame(RecursiveArgument(f)))]

\* do_sequence, lines 534-539: the token is a macro invocation; get_sequence
\* raises KeyError when the text it matches is no key of the table
NamedSequence(map, st, move) ==
    IF GetSequenceRaises(map, move) THEN Raise(st, "KeyError")
    ELSE LET r == get_sequence(map, move)
         IN  [st EXCEPT !.stack = WithTop(st, [rest |-> Tail(TopOf(st).rest),
                                               move |-> move,
                                               moves |-> r[1],
                                               reps |-> r[2]])]

\* do_sequence, lines 545-548: the token is reported and skipped
InvalidMove(st) ==
    [st EXCEPT !.reported = @ + 1, !.stack = WithTop(st, NextToken(TopOf(st)))]

\* a classification that tries the macro table before the atomic-move grammar
DispatchMacroFirst(map, st, move) ==
    IF IsNamedSequence(map, move) THEN NamedSequence(map, st, move)
    ELSE IF IsBasicMove(move)
    THEN do_move([st EXCEPT !.stack = WithTop(st, NextToken(TopOf(st)))], move)
    ELSE InvalidMove(st)

\* do_sequence, lines 527-548: the classification of one token
Dispatch(map, st, move) ==
    IF IsBasicMove(move)
    THEN do_move([st EXCEPT !.stack = WithTop(st, NextToken(TopOf(st)))], move)
    ELSE IF IsNamedSequence(map, move) THEN NamedSequence(map, st, move)
    ELSE InvalidMove(st)

\* do_sequence returns: its for loop is exhausted
Return(st) ==
    [st EXCEPT !.stack = SubSeq(@, 1, Len(@) - 1),
               !.pc = IF Len(st.stack) = 1 THEN "idle" ELSE "loop"]

\* one step of the innermost do_sequence call, from the head of a for loop
Step(map, st) ==
    LET f == TopOf(st)
    IN  IF f.reps > 0 THEN RepeatSequence(st)
        ELSE IF f.rest = <<>> THEN Return(st)
        ELSE Dispatch(map, st, f.rest[1])

\* the executor runs until do_move sleeps, the outermost call returns or an
\* exception is raised
RECURSIVE Run(_, _)
Run(map, st) == IF st.pc = "loop" THEN Run(map, Step(map, st)) ELSE st

\* await self.do_sequence(moves), entered with no call active
Call(map, st, moves) ==
    Run(map, [st EXCEPT !.stack = <<Frame(moves)>>, !.pc = "loop"])

\* do_move, lines 168-173: asyncio.sleep returns; the next quarter turn and
\* sleep, or the return to do_sequence
WakeUp(map, st) ==
    IF st.turn.left > 0
    THEN LET g == QuarterTurn([pl |-> st.pl, fc |-> st.fc], st.turn.move)
         IN  [st EXCEPT !.pl = g.pl, !.fc = g.fc, !.turn.left = @ - 1]
    ELSE Run(map, [st EXCEPT !.turn = NoTurn, !.pc = "loop"])

\* every sleep of the executor awaited in turn: the state in which control has
\* left the outermost do_sequence
RECURSIVE Finish(_, _)
Finish(map, st) == IF st.pc = "sleep" THEN Finish(map, WakeUp(map, st)) ELSE st

(***************************************************************************)
(* The state machine.                                                      *)
(***************************************************************************)
VARIABLES piece_list, faces, previous_moves, sequence_map,
          stack, pc, turn, err, reported,
          op, issued, all_basic,
          seq, result

cube_vars == <<piece_list, faces, previous_moves, sequence_map,
               stack, pc, turn, err, reported, op, issued, all_basic>>

pure_vars == <<seq, result>>

vars == <<cube_vars, pure_vars>>

Grid == [pl |-> piece_list, fc |-> faces]

State == [pl |-> piece_list, fc |-> faces, hist |-> previous_moves,
          stack |-> stack, pc |-> pc, turn |-> turn, err |-> err,
          reported |-> reported]

\* the executor of a cube just constructed
FreshState == [pl |-> FreshGrid.pl, fc |-> FreshGrid.fc, hist |-> <<>>,
               stack |-> <<>>, pc |-> "idle", turn |-> NoTurn, err |-> "none",
               reported |-> 0]

Becomes(st) ==
    /\ piece_list' = st.pl
    /\ faces' = st.fc
    /\ previous_moves' = st.hist
    /\ stack' = st.stack
    /\ pc' = st.pc
    /\ turn' = st.turn
    /\ err' = st.err
    /\ reported' = st.reported

NotApplied == [done |-> FALSE, value |-> <<>>]

\* ThreeByThree.__init__.  Of the host: op is the command it gave last, issued
\* the number of tokens it has passed to do_sequence, all_basic whether each of
\* them was of the atomic-move grammar.
CubeInit ==
    /\ piece_list = InitPieceList
    /\ faces = [p \in PieceIds |-> InitFaces]
    /\ previous_moves = <<>>
    /\ sequence_map \in MacroTables
    /\ stack = <<>>
    /\ pc = "idle"
    /\ turn = NoTurn
    /\ err = "none"
    /\ reported = 0
    /\ op = "none"
    /\ issued = 0
    /\ all_basic = TRUE

Init ==
    /\ CubeInit
    /\ seq = <<>>
    /\ result = NotApplied

\* get_move: the host passes a line of tokens to do_sequence
DoSequence(moves) ==
    /\ pc = "idle"
    /\ Becomes(Call(sequence_map, State, moves))
    /\ op' = "do_sequence"
    /\ issued' = issued + Len(Split(moves))
    /\ all_basic' = (all_basic /\ \A i \in 1..Len(Split(moves)) :
                                      IsBasicMove(Split(moves)[i]))
    /\ UNCHANGED <<sequence_map, pure_vars>>

\* Cube.solve
Solve ==
    /\ pc = "idle"
    /\ reported < MaxReported
    /\ Becomes(Call(sequence_map, State, reverse_sequence(previous_moves)))
    /\ op' = "solve"
    /\ UNCHANGED <<sequence_map, issued, all_basic, pure_vars>>

\* the event loop resumes the sleeping do_move
Resume ==
    /\ pc = "sleep"
    /\ Becomes(WakeUp(sequence_map, State))
    /\ UNCHANGED <<sequence_map, op, issued, all_basic, pure_vars>>

Next ==
    \/ \E moves \in InputStrings(Tokens, PairTokens, MaxMoves - issued) :
          DoSequence(moves)
    \/ Solve
    \/ Resume

Spec == Init /\ [][Next]_vars

\* the same machine for a cube constructed with the table ShadowMacro
ShadowInit ==
    /\ piece_list = InitPieceList
    /\ faces = [p \in PieceIds |-> InitFaces]
    /\ previous_moves = <<>>
    /\ sequence_map = ShadowMacro
    /\ stack = <<>>
    /\ pc = "idle"
    /\ turn = NoTurn
    /\ err = "none"
    /\ reported = 0
    /\ op = "none"
    /\ issued = 0
    /\ all_basic = TRUE
    /\ seq = <<>>
    /\ result = NotApplied

ShadowSpec == ShadowInit /\ [][Next]_vars

\* the same machine, driven further by a host that keeps to AxisTokens
AxisNext ==
    \/ \E moves \in InputStrings(AxisTokens, AxisTokens, MaxAxisMoves - issued) :
          DoSequence(moves)
    \/ Solve
    \/ Resume

AxisSpec == Init /\ [][AxisNext]_vars

(***************************************************************************)
(* simplify_sequence on its own: seq is the string it is given, result     *)
(* what it returns.                                                        *)
(***************************************************************************)
\* the strings of at most n tokens of toks, single spaces between
TokenStrings(toks, n) == {Join(ts) : ts \in UNION {[1..len -> toks] : len \in 0..n}}

\* runs: strings of canonical tokens of one axis group
RunStrings == UNION {TokenStrings(CanonicalTokens(G), MaxRun) : G \in AxisGroups}

\* strings of canonical tokens of the letters U, D, R
MixedStrings == TokenStrings(CanonicalTokens(AxisLetters), MaxTokens)

Simplify ==
    /\ ~result.done
    /\ result' = [done |-> TRUE, value |-> simplify_sequence(seq)]
    /\ UNCHANGED <<cube_vars, seq>>

RunInit ==
    /\ CubeInit
    /\ sequence_map = NoMacros
    /\ seq \in RunStrings
    /\ result = NotApplied

RunSpec == RunInit /\ [][Simplify]_vars

SimplifyInit ==
    /\ CubeInit
    /\ sequence_map = NoMacros
    /\ seq \in MixedStrings
    /\ result = NotApplied

SimplifySpec == SimplifyInit /\ [][Simplify]_vars

\* strings of five tokens that simplify_sequence rewrites in a first and
\* again in a second pass of its loop, and leaves as they are in a third
LongStrings ==
    {Join(<< <<"U">>, <<"D">>, <<"D", AP>>, <<"U", AP>>, <<"D", "2">> >>),
     Join(<< <<"U">>, <<"D">>, <<"D", AP>>, <<"D", "2">>, <<"U", AP>> >>),
     Join(<< <<"D">>, <<"U">>, <<"U", AP>>, <<"U", "2">>, <<"D", AP>> >>),
     Join(<< <<"R">>, <<"U">>, <<"U", AP>>, <<"R", AP>>, <<"D">> >>)}

LoopInit ==
    /\ CubeInit
    /\ sequence_map = NoMacros
    /\ seq \in MixedStrings \cup LongStrings
    /\ result = NotApplied

LoopSpec == LoopInit /\ [][Simplify]_vars

(***************************************************************************)
(* Cube.scramble: the host scrambles and solves.                           *)
(***************************************************************************)
\* the parts of a string, one after the other
RECURSIVE Concat(_)
Concat(parts) == IF Len(parts) = 0 THEN <<>> ELSE parts[1] \o Concat(Tail(parts))

\* scramble, lines 240-241
key_list == Letters
suffix_list == {<<AP, SP>>, <<SP>>}

\* scramble, lines 242-244: the strings scramble_str can be after iterations
\* random choices of a key and a suffix
ScrambleStrings(iterations) ==
    {Concat([i \in 1..iterations |-> <<c[i][1]>> \o c[i][2]]) :
        c \in [1..iterations -> key_list \X suffix_list]}

\* Cube.scramble(iterations)
Scramble(iterations) ==
    /\ pc = "idle"
    /\ issued + iterations <= MaxScramble
    /\ \E scramble_str \in ScrambleStrings(iterations) :
           Becomes(Call(sequence_map, State, scramble_str))
    /\ op' = "scramble"
    /\ issued' = issued + iterations
    /\ UNCHANGED <<sequence_map, all_basic, pure_vars>>

ScrambleNext ==
    \/ \E iterations \in 0..MaxScramble : Scramble(iterations)
    \/ Solve
    \/ Resume

ScrambleSpec == Init /\ [][ScrambleNext]_vars

(***************************************************************************)
(* reverse_sequence on its own: seq is the string it is given, result what *)
(* it returns.                                                             *)
(***************************************************************************)
Reverse ==
    /\ ~result.done
    /\ result' = [done |-> TRUE, value |-> reverse_sequence(seq)]
    /\ UNCHANGED <<cube_vars, seq>>

ReverseSpec == SimplifyInit /\ [][Reverse]_vars

(***************************************************************************)
(* Properties.                                                             *)
(***************************************************************************)
\* the label-to-colour mapping shown by every slot of a grid
SlotColors(pl, fc) == [s \in Slots |-> fc[pl[s]]]

\* h is single-spaced, without leading or trailing space, and each of its
\* tokens is a letter, optionally followed by one ' or one 2
WellFormed(h) ==
    /\ Join(Split(h)) = h
    /\ \A i \in 1..Len(Split(h)) : Split(h)[i] \in CanonicalTokens(Letters)

\* do_sequence(moves) on a second, freshly constructed cube, run to its end
Replay(map, moves) == Finish(map, Call(map, FreshState, moves))

\* do_sequence(moves) called in the current state and run to its end
After(moves) == Finish(sequence_map, Call(sequence_map, State, moves))

\* toks repeated k times
RECURSIVE Times(_, _)
Times(toks, k) == IF k = 0 THEN <<>> ELSE toks \o Times(toks, k - 1)

\* the token string bound to the macro of tok (reversed for an inversion
\* mark), as many times in a row as its repeat count says
Expansion(map, tok) ==
    LET r == get_sequence(map, tok) IN Join(Times(Split(r[1]), r[2]))

\* seq is "first R last" with R a run that does not involve the letter N
Around(N, first, last) ==
    LET toks == Split(seq)
    IN  /\ Len(toks) >= 2
        /\ toks[1] = first
        /\ toks[Len(toks)] = last
        /\ \A i \in 2..(Len(toks) - 1) : toks[i][1] # N

\* the run R of a seq of the form "first R last"
RunOf == Join(SubSeq(Split(seq), 2, Len(Split(seq)) - 1))

\* no two neighbouring tokens of toks are of one axis group
NoNeighboursOfOneAxis(toks) ==
    \A i \in 1..(Len(toks) - 1) :
        ~\E G \in AxisGroups : toks[i][1] \in G /\ toks[i + 1][1] \in G

RUR == <<"R", SP, "U", SP, "R", AP>>

\* C1: on a fresh cube, once atomic moves have been executed and solve() has
\* run to its end, every slot holds its original piece with its original
\* label-to-colour mapping, and is_solved() is true.
C1_SolveRestores ==
    (op = "solve" /\ all_basic /\ pc # "sleep") =>
        /\ pc = "idle"
        /\ piece_list = InitPieceList
        /\ faces = FreshGrid.fc
        /\ is_solved(Grid)

\* C2: whenever no token is in flight after atomic moves on a fresh cube,
\* replaying History through do_sequence on a second fresh cube gives the same
\* label-to-colour mapping in every slot.
C2_HistoryReplays ==
    (pc = "idle" /\ all_basic) =>
        LET r == Replay(sequence_map, previous_moves)
        IN  /\ r.pc = "idle"
            /\ SlotColors(r.pl, r.fc) = SlotColors(piece_list, faces)

\* C3: History is always a well-formed canonical string: single spaces between
\* tokens, none leading or trailing, each token a letter optionally followed
\* by one ' or one 2.
C3_HistoryCanonical == WellFormed(previous_moves)

\* C4: in every state, yield points between quarter turns included, each of
\* the 27 pieces occupies exactly one slot and every slot holds one piece.
C4_Permutation ==
    /\ DOMAIN piece_list = Slots
    /\ \A p \in PieceIds : Cardinality({s \in Slots : piece_list[s] = p}) = 1

\* a yield point between the two quarter turns of a half turn
C4_Witness ==
    /\ pc = "sleep"
    /\ turn.left = 1
    /\ piece_list # InitPieceList
    /\ C4_Permutation

\* C5: for any macro table, the empty one included, an invalid token is
\* reported and skipped without raising: it leaves grid and History as they
\* are, and the rest of the sequence is executed.
C5_InvalidSkipped ==
    pc = "idle" =>
        \A inv \in InvalidTokens : \A rest \in {<<>>, <<"U">>, <<"R", "2">>} :
            LET a == After(inv \o <<SP>> \o rest)
                b == After(rest)
            IN  /\ a.pc = "idle"
                /\ a.err = "none"
                /\ a.reported = b.reported + 1
                /\ a.pl = b.pl
                /\ a.fc = b.fc
                /\ a.hist = b.hist

\* C6: invoking a macro with repeat count k (default 1) has the effect on grid
\* and History of executing the token string bound to it k times in a row.
C6_MacroExpands ==
    (pc = "idle" /\ sequence_map = OneMacro) =>
        \A tok \in MacroTokens :
            LET a == After(tok)
                b == After(Expansion(sequence_map, tok))
            IN  /\ a.pc = "idle"
                /\ a.pl = b.pl
                /\ a.fc = b.fc
                /\ a.hist = b.hist

\* C7: with a macro table free of cyclic references, do_sequence terminates:
\* as long as control has not returned to Idle, the executor can take a step.
C7_Terminates ==
    sequence_map = OneMacro => (pc = "idle" \/ ENABLED Resume)

\* C8: for a run R of N's axis group without N, simplify_sequence rewrites
\* "N R N2" to "N' R" and "N' R N2" to "N R", the result a single-spaced
\* string of canonical tokens.
C8_TripleTurn ==
    result.done =>
        \A N \in Letters :
            /\ Around(N, <<N>>, <<N, "2">>) =>
                  /\ result.value = simplify_sequence(<<N, AP, SP>> \o RunOf)
                  /\ WellFormed(result.value)
            /\ Around(N, <<N, AP>>, <<N, "2">>) =>
                  /\ result.value = simplify_sequence(<<N, SP>> \o RunOf)
                  /\ WellFormed(result.value)

\* C9 as stated: simplify_sequence("R U R'") returns "U".
C9_ReturnsU ==
    (result.done /\ seq = RUR) => result.value = <<"U">>

\* C9, amended: simplify_sequence returns unchanged a string in which no two
\* neighbouring tokens are of one axis group; "R U R'" is returned as it is.
C9_Unchanged ==
    (result.done /\ NoNeighboursOfOneAxis(Split(seq))) => result.value = seq

C9_Witness ==
    /\ result.done
    /\ seq = RUR
    /\ result.value = RUR

\* C10: for a run R of N's axis group without N, simplify_sequence rewrites
\* each of "N' R N", "N R N'" and "N2 R N2" to R (itself simplified).
C10_Cancels ==
    result.done =>
        \A N \in Letters :
            (\/ Around(N, <<N, AP>>, <<N>>)
             \/ Around(N, <<N>>, <<N, AP>>)
             \/ Around(N, <<N, "2">>, <<N, "2">>))
                => /\ result.value = simplify_sequence(RunOf)
                   /\ simplify_sequence(RunOf) = RunOf => result.value = RunOf

\* "L R L'" has been simplified to "R"
C10_Witness ==
    /\ result.done
    /\ seq = <<"L", SP, "R", SP, "L", AP>>
    /\ result.value = <<"R">>

\* the letters of N's axis group
AxisOf(N) == CHOOSE G \in AxisGroups : N \in G

\* C11: for letters N and X of different axis groups, a string "a X b" with a
\* and b canonical tokens of N is returned unchanged by simplify_sequence.
C11_OtherAxisBetween ==
    result.done =>
        LET toks == Split(seq)
        IN  (/\ Len(toks) = 3
             /\ toks[1][1] = toks[3][1]
             /\ toks[2][1] \notin AxisOf(toks[1][1]))
                => result.value = seq

\* "U R U'" has been given to simplify_sequence and returned as it is
C11_Witness ==
    /\ result.done
    /\ seq = <<"U", SP, "R", SP, "U", AP>>
    /\ result.value = seq

\* C12: for a run R of N's axis group without N, simplify_sequence rewrites
\* "N R N" and "N' R N'" to "N2 R".
C12_Fuses ==
    result.done =>
        \A N \in Letters :
            (Around(N, <<N>>, <<N>>) \/ Around(N, <<N, AP>>, <<N, AP>>))
                => /\ result.value = simplify_sequence(<<N, "2", SP>> \o RunOf)
                   /\ simplify_sequence(RunOf) = RunOf
                         => result.value = Strip(<<N, "2", SP>> \o RunOf)

\* "U' D U'" has been simplified to "U2 D"
C12_Witness ==
    /\ result.done
    /\ seq = <<"U", AP, SP, "D", SP, "U", AP>>
    /\ result.value = <<"U", "2", SP, "D">>

\* C13: simplify_sequence is idempotent: simplifying what it returned returns
\* the same string.
C13_Idempotent ==
    result.done => simplify_sequence(result.value) = result.value

\* a string that simplify_sequence rewrote, in more than one pass of its loop
C13_Witness ==
    /\ result.done
    /\ result.value # seq
    /\ Strip(Pass(seq)) # result.value
    /\ simplify_sequence(result.value) = result.value

\* n successive quarter turns of the layer of letter N, inverted if prime
RECURSIVE Turns(_, _, _, _)
Turns(g, N, prime, n) ==
    IF n = 0 THEN g ELSE Turns(rotate_layer(g, N, prime), N, prime, n - 1)

\* the grid of an executor state
GridOf(st) == [pl |-> st.pl, fc |-> st.fc]

\* the quarter-turn tokens N and N'
QuarterTokens == {Str1(l) \o m : l \in Letters, m \in {<<>>, Str1(AP)}}

\* C14: in every state in which the executor is idle, executing a quarter-turn
\* token four times in succession returns the grid to the state it had; a
\* solved cube is solved again.
C14_FourTurns ==
    pc = "idle" =>
        \A t \in QuarterTokens :
            LET a == After(Join(<<t, t, t, t>>))
            IN  /\ a.pc = "idle"
                /\ GridOf(a) = Grid
                /\ is_solved(Grid) => is_solved(GridOf(a))

\* a cube turned away from its solved state, on which one quarter turn differs
\* from four
C14_Witness ==
    /\ pc = "idle"
    /\ ~is_solved(Grid)
    /\ GridOf(After(<<"F">>)) # Grid
    /\ GridOf(After(<<"F", SP, "F", SP, "F", SP, "F">>)) = Grid

\* C15: in every state in which the executor is idle, executing the token N
\* twice gives the same grid as executing the token N2 once.
C15_TwiceIsHalf ==
    pc = "idle" =>
        \A N \in Letters :
            LET a == After(<<N, SP, N>>)
                b == After(<<N, "2">>)
            IN  /\ a.pc = "idle"
                /\ b.pc = "idle"
                /\ GridOf(a) = GridOf(b)

\* a turned cube on which R twice and R2 give one grid, another than before
C15_Witness ==
    /\ pc = "idle"
    /\ piece_list # InitPieceList
    /\ GridOf(After(<<"R", SP, "R">>)) = GridOf(After(<<"R", "2">>))
    /\ GridOf(After(<<"R", "2">>)) # Grid

\* the cube is as its constructor left it: the host has given no command
Fresh == issued = 0 /\ op = "none"

\* C16: a freshly constructed cube reports is_solved() true, and after exactly
\* one atomic move on a fresh cube, whatever its letter, is_solved() is false.
C16_SolvedThenNot ==
    /\ Fresh => is_solved(Grid)
    /\ Fresh => \A t \in CanonicalTokens(Letters) :
                    LET a == After(t)
                    IN  a.pc = "idle" /\ ~is_solved(GridOf(a))
    /\ (/\ issued = 1
        /\ op = "do_sequence"
        /\ pc = "idle"
        /\ all_basic
        /\ previous_moves # <<>>) => ~is_solved(Grid)

\* the one move M' has been executed on a fresh cube
C16_Witness ==
    /\ issued = 1
    /\ op = "do_sequence"
    /\ pc = "idle"
    /\ previous_moves = <<"M", AP>>
    /\ ~is_solved(Grid)

\* explicit repeat counts up to MaxWide, and none
WideCounts == {<<>>} \cup {Decimal(n) : n \in 0..MaxWide}

\* the tokens N, Nn, N' and Nn' given to do_move on its own
WideTokens ==
    {Str1(l) \o c \o m : l \in Letters, c \in WideCounts, m \in {<<>>, Str1(AP)}}

\* the repeat count a token states, 1 if it states none
CountOf(tok) ==
    LET ds == SelectSeq(tok, IsDigit) IN IF ds = <<>> THEN 1 ELSE ParseInt(ds)

\* the token due in History for letter N, count n and a mark: none, N or N'
\* (own mark), N2, or the opposite mark
DueToken(N, n, marked) ==
    CASE n % 4 = 0 -> <<>>
      [] n % 4 = 1 -> IF marked THEN <<N, AP>> ELSE <<N>>
      [] n % 4 = 2 -> <<N, "2">>
      [] n % 4 = 3 -> IF marked THEN <<N>> ELSE <<N, AP>>

\* C17: do_move on a token of letter N with count n (1 if none) changes the
\* grid as n mod 4 quarter turns of N in the token's own direction, and
\* appends to History, before simplification, nothing when n mod 4 = 0, N or
\* N' (own mark) when 1, N2 when 2, and the opposite mark when 3.  (do_move
\* does not read the macro table: the states of one table are tried.)
C17_DoMove ==
    (pc = "idle" /\ sequence_map = NoMacros) =>
        \A tok \in WideTokens :
            LET a      == After(tok)
                N      == tok[1]
                n      == CountOf(tok)
                marked == EndsWithPrime(tok)
                due    == DueToken(N, n, marked)
            IN  /\ a.pc = "idle"
                /\ GridOf(a) = Turns(Grid, N, marked, n % 4)
                /\ a.hist = IF due = <<>> THEN previous_moves
                            ELSE simplify_sequence(previous_moves \o <<SP>> \o due)

\* on a turned cube, U7' has done what one quarter turn of U does and has
\* been recorded as U
C17_Witness ==
    /\ pc = "idle"
    /\ sequence_map = NoMacros
    /\ previous_moves = <<"R">>
    /\ After(<<"U", "7", AP>>).hist = <<"R", SP, "U">>
    /\ GridOf(After(<<"U", "7", AP>>)) = rotate_layer(Grid, "U", FALSE)
    /\ GridOf(After(<<"U", "7", AP>>)) # Grid

\* the tokens whose explicit repeat count is a multiple of four
FourfoldTokens ==
    {Str1(l) \o Decimal(4 * k) \o m :
        l \in Letters, k \in 0..MaxFours, m \in {<<>>, Str1(AP)}}

\* C18: do_move on a token whose explicit repeat count is a multiple of four
\* leaves grid and History as they are and makes no physical turn.
C18_FourfoldNoOp ==
    pc = "idle" =>
        \A tok \in FourfoldTokens :
            LET a == Call(sequence_map, State, tok)
            IN  /\ a.pc = "idle"
                /\ a.turn = NoTurn
                /\ GridOf(a) = Grid
                /\ a.hist = previous_moves

\* a turned cube with a History, on which R4' changes nothing
C18_Witness ==
    /\ pc = "idle"
    /\ previous_moves # <<>>
    /\ ~is_solved(Grid)
    /\ Call(sequence_map, State, <<"R", "4", AP>>).hist = previous_moves
    /\ GridOf(Call(sequence_map, State, <<"R", "4", AP>>)) = Grid

\* C19: for a macro bound to atomic tokens, do_sequence("T") followed by
\* do_sequence("T'") leaves the grid as it was: the primed invocation executes
\* the bound sequence in reverse order, each mark flipped.
C19_PrimedUndoes ==
    (pc = "idle" /\ sequence_map = OneMacro) =>
        LET a == After(<<"T">>)
            b == Finish(sequence_map, Call(sequence_map, a, <<"T", AP>>))
            p == After(<<"T", AP>>)
            r == After(reverse_sequence(sequence_map[<<"T">>]))
        IN  /\ a.pc = "idle"
            /\ b.pc = "idle"
            /\ GridOf(b) = Grid
            /\ p.pc = "idle"
            /\ GridOf(p) = GridOf(r)

\* the reverse of one canonical token: N for N', N' for N, N2 for N2
ReverseOf(t) ==
    IF t[Len(t)] = "2" THEN t
    ELSE IF EndsWithPrime(t) THEN Slice(t, 0, Len(t) - 1)
    ELSE t \o <<AP>>

\* C20: reverse_sequence reverses the token order and maps N to N', N' to N
\* and N2 to N2.
C20_ReverseTokens ==
    result.done =>
        LET toks == Split(seq)
            n    == Len(toks)
        IN  result.value = Join([i \in 1..n |-> ReverseOf(toks[n + 1 - i])])

(***************************************************************************)
(* Piece colours.                                                          *)
(***************************************************************************)
\* C21: every piece carries exactly the six labels U, L, F, R, B, D, and
\* its six faces show the six distinct colours: a rotation permutes them
C21_SixColors ==
    \A p \in PieceIds :
        /\ DOMAIN faces[p] = Labels
        /\ {faces[p][l] : l \in Labels} = Colors

\* a piece rotated away from its initial orientation
C21_Witness ==
    /\ pc = "idle"
    /\ \E p \in PieceIds : faces[p] # InitFaces

\* C22: at every yield point reached during do_sequence no token is partially
\* applied: after atomic moves on a fresh cube, the grid of the sleeping
\* executor equals the grid that replaying the current History through
\* do_sequence on a second fresh cube gives.
C22_NoPartialToken ==
    (pc = "sleep" /\ all_basic) =>
        LET r == Replay(sequence_map, previous_moves)
        IN  /\ r.pc = "idle"
            /\ GridOf(r) = Grid

\* C23: simplify_sequence preserves the net effect: executing the string it
\* returns on a fresh cube gives the same grid as executing the string it was
\* given on a fresh cube, and it returns no more tokens than it was given.
C23_NetEffect ==
    result.done =>
        LET a == Replay(sequence_map, seq)
            b == Replay(sequence_map, result.value)
        IN  /\ a.pc = "idle"
            /\ b.pc = "idle"
            /\ GridOf(b) = GridOf(a)
            /\ Len(Split(result.value)) <= Len(Split(seq))

\* seq is "first second" or "first second X", X a token of an axis group
\* other than N's
ThenOther(N, first, second) ==
    LET toks == Split(seq)
    IN  /\ Len(toks) \in 2..3
        /\ toks[1] = first
        /\ toks[2] = second
        /\ Len(toks) = 3 => toks[3][1] \notin AxisOf(N)

\* C24: simplify_sequence rewrites "N2 N" to "N'" and "N2 N'" to "N" wherever
\* the second token ends at a space or at the end of the string:
\* "U2 U F" gives "U' F" and "U2 U' F" gives "U F".
C24_HalfThenQuarter ==
    result.done =>
        \A N \in Letters :
            /\ ThenOther(N, <<N, "2">>, <<N>>) =>
                  result.value = Join(<< <<N, AP>> >> \o Tail(Tail(Split(seq))))
            /\ ThenOther(N, <<N, "2">>, <<N, AP>>) =>
                  result.value = Join(<< <<N>> >> \o Tail(Tail(Split(seq))))

(***************************************************************************)
(* Layers and quarter turns.                                               *)
(***************************************************************************)
\* the pairs of different letters of one axis group
AxisPairs == {P \in SUBSET Letters :
                 Cardinality(P) = 2 /\ \E G \in AxisGroups : P \subseteq G}

\* C25: quarter turns of two letters of one axis group commute on the grid:
\* in every grid in which the executor is idle, turning A then B gives the
\* same grid as turning B then A, each of them normal or inverted.
C25_SameAxisCommute ==
    pc = "idle" =>
        \A P \in AxisPairs : \A pa, pb \in BOOLEAN :
            LET A == CHOOSE x \in P : TRUE
                B == CHOOSE x \in P : x # A
            IN  rotate_layer(rotate_layer(Grid, A, pa), B, pb)
                    = rotate_layer(rotate_layer(Grid, B, pb), A, pa)

\* a turned cube on which U then E differs from no turn and from U alone
C25_Witness ==
    /\ pc = "idle"
    /\ piece_list # InitPieceList
    /\ rotate_layer(rotate_layer(Grid, "U", FALSE), "E", FALSE)
           = rotate_layer(rotate_layer(Grid, "E", FALSE), "U", FALSE)
    /\ rotate_layer(rotate_layer(Grid, "U", FALSE), "E", FALSE)
           # rotate_layer(Grid, "U", FALSE)
    /\ rotate_layer(Grid, "U", FALSE) # Grid

\* the slots of the layer of letter N
LayerSlots(N) ==
    UNION {{layers(N)[r][i] : i \in 1..Len(layers(N)[r])} :
               r \in 1..Len(layers(N))}

\* the ring position a piece at position i of an 8-slot ring has after a
\* quarter turn: two further on, or two back when inverted
RingTarget(i, prime) == (((i - 1) + (IF prime THEN 6 ELSE 2)) % 8) + 1

\* C26: a single quarter turn of letter N changes only the 9 slots of its
\* layer: a slot outside keeps its piece and the piece its colours, the
\* centre keeps its piece, re-oriented once, and each piece of the 8-slot
\* ring moves 2 ring positions, forward for a normal turn and backward for
\* an inverted one, and is re-oriented once.
C26_QuarterTurnFrame ==
    \A N \in Letters : \A prime \in BOOLEAN :
        LET g      == rotate_layer(Grid, N, prime)
            centre == layers(N)[1][1]
            ring   == layers(N)[2]
        IN  /\ Cardinality(LayerSlots(N)) = 9
            /\ \A s \in Slots \ LayerSlots(N) :
                   /\ g.pl[s] = piece_list[s]
                   /\ g.fc[piece_list[s]] = faces[piece_list[s]]
            /\ g.pl[centre] = piece_list[centre]
            /\ g.fc[piece_list[centre]]
                   = rotate(faces[piece_list[centre]], N, prime)
            /\ \A i \in 1..8 :
                   /\ g.pl[ring[RingTarget(i, prime)]] = piece_list[ring[i]]
                   /\ g.fc[piece_list[ring[i]]]
                          = rotate(faces[piece_list[ring[i]]], N, prime)

\* the one quarter turn U has been made on a fresh cube: the first piece of
\* the ring is third, the centre is re-oriented, the down layer is as it was
C26_Witness ==
    /\ pc = "idle"
    /\ previous_moves = <<"U">>
    /\ piece_list[<<0, 2, 0>>] = InitPieceList[<<0, 0, 0>>]
    /\ piece_list[<<0, 1, 1>>] = InitPieceList[<<0, 1, 1>>]
    /\ faces[InitPieceList[<<0, 1, 1>>]] = rotate(InitFaces, "U", FALSE)
    /\ faces[InitPieceList[<<0, 1, 1>>]] # InitFaces
    /\ \A s \in LayerSlots("D") :
           piece_list[s] = InitPieceList[s] /\ faces[piece_list[s]] = InitFaces

(***************************************************************************)
(* Piece rotation, on the faces of every piece of every reachable state.   *)
(***************************************************************************)
\* the axis-rotation primitive applied n times
RECURSIVE Cycles(_, _, _)
Cycles(f, axis, n) ==
    IF n = 0 THEN f ELSE Cycles(do_rotation(f, axis, FALSE), axis, n - 1)

\* C27: the axis-rotation primitive applied once moves the colours so: about
\* X, new F = old D, new U = old F, new B = old U, new D = old B (L, R as
\* they were); about Y, new L = old F, new F = old R, new R = old B, new
\* B = old L (U, D as they were); about Z, new L = old D, new U = old L,
\* new R = old U, new D = old R (F, B as they were).
C27_AxisCycle ==
    \A p \in PieceIds :
        LET f == faces[p]
            x == do_rotation(f, "X", FALSE)
            y == do_rotation(f, "Y", FALSE)
            z == do_rotation(f, "Z", FALSE)
        IN  /\ x["F"] = f["D"] /\ x["U"] = f["F"]
            /\ x["B"] = f["U"] /\ x["D"] = f["B"]
            /\ x["L"] = f["L"] /\ x["R"] = f["R"]
            /\ y["L"] = f["F"] /\ y["F"] = f["R"]
            /\ y["R"] = f["B"] /\ y["B"] = f["L"]
            /\ y["U"] = f["U"] /\ y["D"] = f["D"]
            /\ z["L"] = f["D"] /\ z["U"] = f["L"]
            /\ z["R"] = f["U"] /\ z["D"] = f["R"]
            /\ z["F"] = f["F"] /\ z["B"] = f["B"]

\* a piece turned away from its initial orientation, which the primitive
\* about Y turns further
C27_Witness ==
    /\ pc = "idle"
    /\ \E p \in PieceIds :
           /\ faces[p] # InitFaces
           /\ do_rotation(faces[p], "Y", FALSE) # faces[p]
           /\ do_rotation(faces[p], "Y", FALSE)["L"] = faces[p]["F"]

\* rotate(label) followed by rotate(label, invert=true), and the other way
\* round, restore the faces f
InverseOf(f, label) ==
    /\ rotate(rotate(f, label, FALSE), label, TRUE) = f
    /\ rotate(rotate(f, label, TRUE), label, FALSE) = f

\* C28 as stated: for each of the 9 labels, rotate(label, invert=true)
\* applies the forward axis cycle exactly three times and is the exact
\* inverse of rotate(label).
C28_InvertedThrice ==
    \A p \in PieceIds : \A label \in Letters :
        /\ rotate(faces[p], label, TRUE)
               = Cycles(faces[p], rotation_map(label)[1], 3)
        /\ InverseOf(faces[p], label)

\* C28, amended: rotate(label, invert=true) applies the forward axis cycle
\* three times for a label of a positive axis (U, F, R, S) and once for a
\* label of a negative axis (L, D, B, E, M), for which it is rotate(label)
\* that applies it three times; for each of the 9 labels it is the exact
\* inverse of rotate(label), in either order.
C28_InvertedIsInverse ==
    \A p \in PieceIds : \A label \in Letters :
        LET axis     == rotation_map(label)[1]
            negative == rotation_map(label)[2]
        IN  /\ rotate(faces[p], label, TRUE)
                   = Cycles(faces[p], axis, IF negative THEN 1 ELSE 3)
            /\ rotate(faces[p], label, FALSE)
                   = Cycles(faces[p], axis, IF negative THEN 3 ELSE 1)
            /\ InverseOf(faces[p], label)

\* a turned piece on which rotate(L, invert=true) is the cycle about X once,
\* not three times, and undoes rotate(L)
C28_Witness ==
    /\ pc = "idle"
    /\ \E p \in PieceIds :
           /\ faces[p] # InitFaces
           /\ rotate(faces[p], "L", TRUE) = Cycles(faces[p], "X", 1)
           /\ rotate(faces[p], "L", TRUE) # Cycles(faces[p], "X", 3)
           /\ rotate(rotate(faces[p], "L", FALSE), "L", TRUE) = faces[p]
           /\ rotate(faces[p], "L", FALSE) # faces[p]

\* C29: a label of a negative axis rotates a piece opposite to the label of
\* the positive axis: on every piece state rotate(D) and rotate(E) equal
\* rotate(U, invert=true), rotate(L) and rotate(M) equal rotate(R,
\* invert=true), rotate(B) equals rotate(F, invert=true), and rotate(S)
\* equals rotate(F).
C29_NegativeAxis ==
    \A p \in PieceIds :
        LET f == faces[p]
        IN  /\ rotate(f, "D", FALSE) = rotate(f, "U", TRUE)
            /\ rotate(f, "E", FALSE) = rotate(f, "U", TRUE)
            /\ rotate(f, "L", FALSE) = rotate(f, "R", TRUE)
            /\ rotate(f, "M", FALSE) = rotate(f, "R", TRUE)
            /\ rotate(f, "B", FALSE) = rotate(f, "F", TRUE)
            /\ rotate(f, "S", FALSE) = rotate(f, "F", FALSE)

\* a turned piece on which rotate(D) is rotate(U, invert=true) and differs
\* from rotate(U)
C29_Witness ==
    /\ pc = "idle"
    /\ \E p \in PieceIds :
           /\ faces[p] # InitFaces
           /\ rotate(faces[p], "D", FALSE) = rotate(faces[p], "U", TRUE)
           /\ rotate(faces[p], "D", FALSE) # rotate(faces[p], "U", FALSE)

(***************************************************************************)
(* The loop of simplify_sequence.                                          *)
(***************************************************************************)
\* the move tokens of s: every move token has one letter
LetterCount(s) == Len(SelectSeq(s, LAMBDA c : c \in Letters))

\* the passes the while loop makes until previous_sequence = seq
RECURSIVE PassCount(_, _)
PassCount(previous_sequence, s) ==
    IF previous_sequence = s THEN 0 ELSE 1 + PassCount(s, Pass(s))

\* every pass of the while loop that changes the string leaves fewer move
\* tokens than it found
RECURSIVE PassesShrink(_, _)
PassesShrink(previous_sequence, s) ==
    IF previous_sequence = s THEN TRUE
    ELSE /\ Pass(s) # s => LetterCount(Pass(s)) < LetterCount(s)
         /\ PassesShrink(s, Pass(s))

\* C30: simplify_sequence terminates on every string of move tokens: its
\* loop reaches a string that a full pass leaves as it is, after no more
\* passes than the string has tokens and one, because every pass that
\* changes the string removes at least one move token.
C30_ReachesFixpoint ==
    result.done =>
        /\ PassesShrink(<<>>, seq)
        /\ PassCount(<<>>, seq) <= LetterCount(seq) + 1
        /\ Pass(SimplifyLoop(<<>>, seq)) = SimplifyLoop(<<>>, seq)
        /\ result.value = Strip(SimplifyLoop(<<>>, seq))

\* a string of five tokens brought to "D2" in three passes, two of which
\* changed it
C30_Witness ==
    /\ result.done
    /\ seq \in LongStrings
    /\ PassCount(<<>>, seq) = 3
    /\ Pass(Pass(seq)) # Pass(seq)
    /\ result.value = <<"D", "2">>

(***************************************************************************)
(* The layer table.                                                        *)
(***************************************************************************)
\* the plane of the grid of letter N: U, E, D the first index 0, 1, 2; F, S,
\* B the second; L, M, R the third
PlaneOf(N) ==
    LET at(i, v) == {s \in Slots : s[i] = v}
    IN  CASE N = "U" -> at(1, 0) [] N = "E" -> at(1, 1) [] N = "D" -> at(1, 2)
          [] N = "F" -> at(2, 0) [] N = "S" -> at(2, 1) [] N = "B" -> at(2, 2)
          [] N = "L" -> at(3, 0) [] N = "M" -> at(3, 1) [] N = "R" -> at(3, 2)

\* the table holds for each letter one 1-slot ring and one 8-slot ring, 9
\* different slots, those of the letter's plane
TableShape ==
    \A N \in Letters :
        /\ Len(layers(N)) = 2
        /\ Len(layers(N)[1]) = 1
        /\ Len(layers(N)[2]) = 8
        /\ Cardinality(LayerSlots(N)) = 9
        /\ LayerSlots(N) = PlaneOf(N)

\* a step that changes the grid is one quarter turn, after which do_move
\* sleeps; it changes the slots of the plane of the turned letter only
RingsFixedStep ==
    (piece_list' # piece_list \/ faces' # faces) =>
        /\ pc' = "sleep"
        /\ \A s \in Slots \ PlaneOf(turn'.move[1]) :
               /\ piece_list'[s] = piece_list[s]
               /\ faces'[piece_list[s]] = faces[piece_list[s]]

\* C31: for each of the 9 letters the layer table holds exactly one 1-slot
\* ring and one 8-slot ring, 9 pairwise distinct slots that all lie in one
\* plane of the grid, and no sequence of moves changes which slots a ring
\* refers to: whatever came before, a turn of N changes the contents of the
\* slots of N's plane and of no other.
C31_LayerTable == []TableShape /\ [][RingsFixedStep]_vars

\* the cube has been turned: the slots of U hold other pieces than at first,
\* and the next quarter turn of U still changes the slots of U's plane only
C31_Witness ==
    /\ pc = "idle"
    /\ {piece_list[s] : s \in LayerSlots("U")}
           # {InitPieceList[s] : s \in LayerSlots("U")}
    /\ \A s \in Slots \ PlaneOf("U") :
           rotate_layer(Grid, "U", FALSE).pl[s] = piece_list[s]
    /\ rotate_layer(Grid, "U", FALSE).pl # piece_list

(***************************************************************************)
(* Scramble and solve.                                                     *)
(***************************************************************************)
\* C32: after scramble(n) followed by solve(), whatever the random choices
\* were, solve() runs to its end without raising, is_solved() is true and
\* History is the empty string.
C32_ScrambleSolve ==
    /\ pc # "raised"
    /\ (op = "solve" /\ pc = "idle") =>
           /\ is_solved(Grid)
           /\ previous_moves = <<>>

\* scrambles of three tokens in all have been executed, and after them solve()
C32_Witness ==
    /\ op = "solve"
    /\ pc = "idle"
    /\ issued = 3
    /\ is_solved(Grid)
    /\ previous_moves = <<>>

(***************************************************************************)
(* Classification of tokens.                                               *)
(***************************************************************************)
\* n quarter turns of the canonical token move
RECURSIVE QuarterTurns(_, _, _)
QuarterTurns(g, move, n) ==
    IF n = 0 THEN g ELSE QuarterTurns(QuarterTurn(g, move), move, n - 1)

\* C33: do_sequence classifies a token as atomic move before it looks at the
\* macro table: with a macro named U in the table, a token of the atomic
\* grammar U, Un, U', Un' is executed by do_move as an atomic move, on grid
\* and History, and the token string bound to the macro is not executed.
C33_AtomicFirst ==
    (pc = "idle" /\ sequence_map = ShadowMacro) =>
        \A tok \in BasicTokens({"U"}) :
            LET a == After(tok)
                c == Canonical(tok)
            IN  /\ IsBasicMove(tok)
                /\ IsNamedSequence(sequence_map, tok)
                /\ a.pc = "idle"
                /\ a.err = "none"
                /\ a.reported = reported
                /\ GridOf(a) = QuarterTurns(Grid, c[1], c[2])
                /\ a.hist = IF c[2] = 0 THEN previous_moves
                            ELSE simplify_sequence(previous_moves \o <<SP>> \o c[1])

\* with the macro U bound to "R F", the token U has been executed on a fresh
\* cube as the quarter turn U
C33_Witness ==
    /\ sequence_map = ShadowMacro
    /\ pc = "idle"
    /\ op = "do_sequence"
    /\ issued = 1
    /\ previous_moves = <<"U">>
    /\ Grid = rotate_layer(FreshGrid, "U", FALSE)
    /\ Grid # GridOf(Replay(NoMacros, sequence_map[<<"U">>]))

(***************************************************************************)
(* A move and its inverse.                                                 *)
(***************************************************************************)
\* C34: in every state in which the executor is idle, for every letter N,
\* executing N then N', or N' then N, restores the grid exactly: every slot
\* holds the piece it held, with the same colour on every label.
C34_MoveThenInverse ==
    pc = "idle" =>
        \A N \in Letters :
            LET a == After(<<N, SP, N, AP>>)
                b == After(<<N, AP, SP, N>>)
            IN  /\ a.pc = "idle"
                /\ b.pc = "idle"
                /\ GridOf(a) = Grid
                /\ GridOf(b) = Grid

\* a turned cube that the move M changes and M followed by M' does not
C34_Witness ==
    /\ pc = "idle"
    /\ piece_list # InitPieceList
    /\ GridOf(After(<<"M">>)) # Grid
    /\ GridOf(After(<<"M", SP, "M", AP>>)) = Grid

(***************************************************************************)
(* The empty History.                                                      *)
(***************************************************************************)
\* C35: whenever History is the empty string and no token is in flight, the
\* grid is the freshly constructed grid, every slot holding its original
\* piece in its original orientation, and is_solved() is true.
C35_EmptyHistoryFresh ==
    (pc # "sleep" /\ previous_moves = <<>>) =>
        /\ Grid = FreshGrid
        /\ is_solved(Grid)

\* three canonical tokens have been executed, each a turn of a layer, and
\* have cancelled to the empty History
C35_Witness ==
    /\ pc = "idle"
    /\ op = "do_sequence"
    /\ issued = 3
    /\ all_basic
    /\ previous_moves = <<>>
    /\ Grid = FreshGrid

====
